---- MODULE Spec2Model ----
(***************************************************************************)
(* A model of xdgen (src/src/lib.rs): the catalog registry (Context::new), *)
(* the message resolver (FluentString::get) and the two expanders          *)
(* (App::expand_desktop, App::expand_metainfo).                            *)
(*                                                                         *)
(* Text is a sequence of symbols: a symbol is a separator character        *)
(* ("-", "_", ";") or a run of other characters.  A BTreeMap is a function *)
(* whose domain is the key set, visited in ascending key order.  An        *)
(* Option is a sequence of length 0 (None) or 1 (Some).                    *)
(***************************************************************************)
EXTENDS Naturals, Sequences, FiniteSets, TLC

VARIABLES pc, dir, domain, ctx, msg, app, template, root, result, rerun

vars == <<pc, dir, domain, ctx, msg, app, template, root, result, rerun>>

\* ------------------------------------------------------------------ bounds

MaxEntries == 3
MaxLines == 3
MaxChildren == 3

\* ----------------------------------------------------------------- helpers

None == <<>>
Some(x) == <<x>>

\* str::replace(from, to) for a one-symbol pattern
Replace(s, from, to) == [i \in DOMAIN s |-> IF s[i] = from THEN to ELSE s[i]]

\* BTreeMap::insert
MapInsert(m, k, v) == [x \in (DOMAIN m) \cup {k} |-> IF x = k THEN v ELSE m[x]]

EmptyMap == <<>>

RECURSIVE SortedSeq(_)
\* the keys of a BTreeMap in iteration (ascending) order
SortedSeq(S) ==
    IF S = {} THEN <<>>
    ELSE LET m == CHOOSE x \in S : \A y \in S : x <= y
         IN <<m>> \o SortedSeq(S \ {m})

Keys(m) == SortedSeq(DOMAIN m)

RECURSIVE Concat(_)
Concat(ss) == IF ss = <<>> THEN <<>> ELSE Head(ss) \o Concat(Tail(ss))

\* ----------------------------------------------------------- language tags

\* LanguageIdentifier values, listed in their derived Ord order; a tag is its
\* index in this table, so that tag order is integer order.
LangTable == << <<"en">>, <<"en", "-", "US">>, <<"fr">> >>

Langs == DOMAIN LangTable

\* LanguageIdentifier::to_string
LangToString(lang) == LangTable[lang]

\* lang.to_string().replace("-", "_")
LangParam(lang) == Replace(LangToString(lang), "-", "_")

\* str::parse::<LanguageIdentifier>: both separators are accepted and the
\* result is normalised; None for a name that is no language tag
ParseLang(name) ==
    LET norm == Replace(name, "_", "-")
        hits == {l \in Langs : LangTable[l] = norm}
    IN IF hits = {} THEN None ELSE Some(CHOOSE l \in hits : TRUE)

\* --------------------------------------------------------------- catalogs

MsgIds == {"app-name", "app-comment", "app-keywords"}

Absent == [kind |-> "absent", text |-> <<>>]
NoValue == [kind |-> "novalue", text |-> <<>>]
Ok(t) == [kind |-> "ok", text |-> t]
Errs(t) == [kind |-> "errs", text |-> t]

\* a bundle answers get_message / value / format_pattern for every identifier
EmptyBundle == [m \in MsgIds |-> Absent]

\* ------------------------------------------------- Context::new (registry)

\* the catalog file name: format!("{}.ftl", domain.replace("-", "_"))
CatalogFile(dom) == Replace(dom, "-", "_") \o <<".ftl">>

Range(s) == {s[i] : i \in DOMAIN s}

\* fs::read_to_string(path): the catalog stored at the path, None when the
\* file cannot be read
ReadToString(fs, path) ==
    LET e == CHOOSE e \in Range(fs) : e.name = path.dir
    IN IF path.file \in e.files THEN Some(e.catalog) ELSE None

RECURSIVE ScanDir(_, _, _)
\* the first loop of Context::new: directory entries to lang_files
ScanDir(entries, dom, lang_files) ==
    IF entries = <<>> THEN [ok |-> TRUE, err |-> "", lang_files |-> lang_files]
    ELSE LET entry == Head(entries) IN
         IF ~entry.is_dir THEN ScanDir(Tail(entries), dom, lang_files)
         ELSE IF ~entry.name.utf8
              THEN [ok |-> FALSE, err |-> "invalid UTF-8", lang_files |-> EmptyMap]
         ELSE IF ParseLang(entry.name.s) = None
              THEN [ok |-> FALSE, err |-> "parse language", lang_files |-> EmptyMap]
         ELSE LET lang == ParseLang(entry.name.s)[1]
                  path == [dir |-> entry.name, file |-> CatalogFile(dom)]
              IN ScanDir(Tail(entries), dom, MapInsert(lang_files, lang, path))

RECURSIVE LoadBundlesStrict(_, _, _, _)
\* LoadBundles with a catalog parse error treated as fatal
LoadBundlesStrict(langs, lang_files, fs, acc) ==
    IF langs = <<>> THEN acc
    ELSE LET lang == Head(langs)
             source == ReadToString(fs, lang_files[lang])
         IN IF source = None \/ source[1].parse_errs
            THEN [ok |-> FALSE, err |-> "read catalog", lang_bundles |-> EmptyMap,
                  diag |-> acc.diag]
            ELSE LoadBundlesStrict(Tail(langs), lang_files, fs,
                     [acc EXCEPT !.lang_bundles =
                                     MapInsert(@, lang, source[1].messages)])

RECURSIVE LoadBundles(_, _, _, _)
\* the second loop of Context::new: lang_files to lang_bundles
LoadBundles(langs, lang_files, fs, acc) ==
    IF langs = <<>> THEN acc
    ELSE LET lang == Head(langs)
             source == ReadToString(fs, lang_files[lang])
         IN IF source = None
            THEN [ok |-> FALSE, err |-> "read catalog", lang_bundles |-> EmptyMap,
                  diag |-> acc.diag]
            ELSE LET cat == source[1]
                     d1 == IF cat.parse_errs
                           THEN Append(acc.diag, <<"failed to parse", lang>>)
                           ELSE acc.diag
                     d2 == IF cat.add_errs
                           THEN Append(d1, <<"failed to add resource", lang>>)
                           ELSE d1
                 IN LoadBundles(Tail(langs), lang_files, fs,
                        [acc EXCEPT !.lang_bundles = MapInsert(@, lang, cat.messages),
                                    !.diag = d2])

\* Context::new(i18n_dir, domain)
ContextNew(fs, dom) ==
    LET scan == ScanDir(fs, dom, EmptyMap)
    IN IF ~scan.ok
       THEN [ok |-> FALSE, err |-> scan.err, lang_bundles |-> EmptyMap, diag |-> <<>>]
       ELSE LoadBundles(Keys(scan.lang_files), scan.lang_files, fs,
                [ok |-> TRUE, err |-> "", lang_bundles |-> EmptyMap, diag |-> <<>>])

\* ------------------------------------------- FluentString::get (resolver)

RECURSIVE GetLoopSkipFailed(_, _, _, _)
\* GetLoop with a language skipped when its formatting reported errors
GetLoopSkipFailed(langs, bundles, id, acc) ==
    IF langs = <<>> THEN acc
    ELSE LET lang == Head(langs)
             m == bundles[lang][id]
         IN IF m.kind # "ok" THEN GetLoopSkipFailed(Tail(langs), bundles, id, acc)
            ELSE GetLoopSkipFailed(Tail(langs), bundles, id,
                     [acc EXCEPT !.results = MapInsert(@, lang, m.text)])

RECURSIVE GetLoop(_, _, _, _)
\* the loop of FluentString::get over ctx.lang_bundles
GetLoop(langs, bundles, id, acc) ==
    IF langs = <<>> THEN acc
    ELSE LET lang == Head(langs)
             m == bundles[lang][id]
         IN IF m.kind = "absent" THEN GetLoop(Tail(langs), bundles, id, acc)
            ELSE IF m.kind = "novalue" THEN GetLoop(Tail(langs), bundles, id, acc)
            ELSE GetLoop(Tail(langs), bundles, id,
                     [results |-> MapInsert(acc.results, lang, m.text),
                      diag |-> IF m.kind = "errs"
                               THEN Append(acc.diag, <<"errors when formatting", id, lang>>)
                               ELSE acc.diag])

\* FluentString(id).get(ctx): the resolved translation map and the diagnostics
FluentGet(id, bundles) ==
    GetLoop(Keys(bundles), bundles, id, [results |-> EmptyMap, diag |-> <<>>])

\* the map alone, as the expanders use it
Get(id, bundles) == FluentGet(id, bundles).results

\* -------------------------------------------------------- Entity Descriptor

\* App::new(name).comment(..).keywords(..): the optional fields are Options
Apps ==
    {[name |-> "app-name", comment |-> c, keywords |-> k] :
        c \in {None, Some("app-comment")}, k \in {None, Some("app-keywords")}}

\* ------------------------------------------------- desktop-entry documents

\* one line of a desktop-entry text: "[name]" or "key[param]=value"
SectionLine(name) ==
    [kind |-> "section", name |-> name, key |-> "", param |-> None, value |-> <<>>]

AttrLine(key, param, value) ==
    [kind |-> "attr", name |-> "", key |-> key, param |-> param, value |-> value]

\* index of the attribute with this key and parameter, 0 when there is none
AttrIndex(attrs, key, param) ==
    LET hits == {i \in DOMAIN attrs :
                    attrs[i].key.key = key /\ attrs[i].key.param = param}
    IN IF hits = {} THEN 0 ELSE CHOOSE i \in hits : TRUE

RECURSIVE ParseLines(_, _)
\* freedesktop_entry_parser::parse_entry as expand_desktop consumes it:
\* sections in file order, each an ordered map from (key, param) to the list
\* of the values given to that key in the section
ParseLines(lines, sections) ==
    IF lines = <<>> THEN sections
    ELSE LET l == Head(lines) IN
         IF l.kind = "section"
         THEN ParseLines(Tail(lines),
                  Append(sections, [name |-> l.name, attrs |-> <<>>]))
         ELSE LET n == Len(sections)
                  i == AttrIndex(sections[n].attrs, l.key, l.param)
                  attrs == IF i = 0
                           THEN Append(sections[n].attrs,
                                    [key |-> [key |-> l.key, param |-> l.param],
                                     values |-> <<l.value>>])
                           ELSE [sections[n].attrs EXCEPT
                                    ![i].values = Append(@, l.value)]
              IN ParseLines(Tail(lines), [sections EXCEPT ![n].attrs = attrs])

ParseEntry(lines) == ParseLines(lines, <<>>)

\* ------------------------------------------------------ App::expand_desktop

\* the re-emitted lines of one attribute, one per value
ValueLines(key, values) ==
    [i \in DOMAIN values |-> AttrLine(key.key, key.param, values[i])]

\* FluentOpt with the section name left out of the match
FluentOptAnySection(a, name, key) ==
    IF key = "Name" THEN Some(a.name)
    ELSE IF key = "Comment" THEN a.comment
    ELSE IF key = "Keywords" THEN a.keywords
    ELSE None

\* the match on (section name, key) choosing the descriptor field
FluentOpt(a, name, key) ==
    IF name = "Desktop Entry" /\ key = "Name" THEN Some(a.name)
    ELSE IF name = "Desktop Entry" /\ key = "Comment" THEN a.comment
    ELSE IF name = "Desktop Entry" /\ key = "Keywords" THEN a.keywords
    ELSE None

\* the injected lines: key[lang]=value for every entry of the resolved map
LocalizedLines(key, map) ==
    LET ks == Keys(map)
    IN [i \in DOMAIN ks |-> AttrLine(key, Some(LangParam(ks[i])), map[ks[i]])]

Flags(n, b) == [i \in 1..n |-> b]

RECURSIVE ExpandAttrs(_, _, _, _, _)
\* the loop over section.attrs(); acc.appended marks, line by line, the lines
\* written by the injection loop
ExpandAttrs(a, bundles, name, attrs, acc) ==
    IF attrs = <<>> \/ ~acc.ok THEN acc
    ELSE LET at == Head(attrs)
             own == ValueLines(at.key, at.values)
             s1 == acc.s \o own
             m1 == acc.appended \o Flags(Len(own), FALSE)
             fluent_opt == FluentOpt(a, name, at.key.key)
         IN IF fluent_opt = None
            THEN ExpandAttrs(a, bundles, name, Tail(attrs),
                     [acc EXCEPT !.s = s1, !.appended = m1])
            ELSE IF at.key.param # None
            THEN [ok |-> FALSE, err |-> "has localized", s |-> <<>>, appended |-> <<>>]
            ELSE LET loc == LocalizedLines(at.key.key, Get(fluent_opt[1], bundles))
                 IN ExpandAttrs(a, bundles, name, Tail(attrs),
                        [acc EXCEPT !.s = s1 \o loc,
                                    !.appended = m1 \o Flags(Len(loc), TRUE)])

RECURSIVE ExpandSections(_, _, _, _)
\* the loop over template.sections()
ExpandSections(a, bundles, sections, acc) ==
    IF sections = <<>> \/ ~acc.ok THEN acc
    ELSE LET sec == Head(sections)
             hdr == [acc EXCEPT !.s = Append(@, SectionLine(sec.name)),
                                !.appended = Append(@, FALSE)]
         IN ExpandSections(a, bundles, Tail(sections),
                ExpandAttrs(a, bundles, sec.name, sec.attrs, hdr))

\* App::expand_desktop(template, ctx) on the text of the template
ExpandDesktop(a, lines, bundles) ==
    ExpandSections(a, bundles, ParseEntry(lines),
        [ok |-> TRUE, err |-> "", s |-> <<>>, appended |-> <<>>])

\* ------------------------------------------------------------ XML documents

\* xmltree::XMLNode: an element (name, attributes, children) or a text node;
\* the attributes are a set of <<name, value>> pairs
Elem(name, attrs, children) ==
    [kind |-> "elem", name |-> name, attrs |-> attrs, children |-> children,
     text |-> <<>>]

TextNode(t) ==
    [kind |-> "text", name |-> "", attrs |-> {}, children |-> <<>>, text |-> t]

\* Vec::insert(index, x), index counted from 0
VecInsert(v, index, x) ==
    SubSeq(v, 1, index) \o <<x>> \o SubSeq(v, index + 1, Len(v))

RECURSIVE RenameAttrs(_, _, _)
\* the document with every attribute named from renamed to
RenameAttrs(node, from, to) ==
    [node EXCEPT
        !.attrs = {<<IF p[1] = from THEN to ELSE p[1], p[2]>> : p \in node.attrs},
        !.children = [i \in DOMAIN node.children |->
                         RenameAttrs(node.children[i], from, to)]]

\* write_with_config followed by s.replace(" lang=", " xml:lang="): the text
\* of the document, every lang attribute written as xml:lang
Serialize(element) == RenameAttrs(element, "lang", "xml:lang")

\* Element::parse: attributes are keyed by their local name
ParseXml(text) == RenameAttrs(text, "xml:lang", "lang")

\* ----------------------------------------------------- App::expand_metainfo

RECURSIVE FindAnchorLastWins(_, _, _, _)
\* FindAnchor without the check for a second attribute-less element
FindAnchorLastWins(children, tag, index, index_opt) ==
    IF index >= Len(children) THEN [ok |-> TRUE, err |-> "", index_opt |-> index_opt]
    ELSE LET child == children[index + 1] IN
         IF child.kind = "elem" /\ child.name = tag
         THEN IF child.attrs # {}
              THEN [ok |-> FALSE, err |-> "has localized tag", index_opt |-> None]
              ELSE FindAnchorLastWins(children, tag, index + 1, Some(index))
         ELSE FindAnchorLastWins(children, tag, index + 1, index_opt)

RECURSIVE FindAnchorDupFirst(_, _, _, _)
\* FindAnchor with the duplicate check made before the attribute check
FindAnchorDupFirst(children, tag, index, index_opt) ==
    IF index >= Len(children) THEN [ok |-> TRUE, err |-> "", index_opt |-> index_opt]
    ELSE LET child == children[index + 1] IN
         IF child.kind = "elem" /\ child.name = tag
         THEN IF index_opt # None
              THEN [ok |-> FALSE, err |-> "has redefined tag", index_opt |-> None]
              ELSE IF child.attrs # {}
              THEN [ok |-> FALSE, err |-> "has localized tag", index_opt |-> None]
              ELSE FindAnchorDupFirst(children, tag, index + 1, Some(index))
         ELSE FindAnchorDupFirst(children, tag, index + 1, index_opt)

RECURSIVE FindAnchorSkipAttributed(_, _, _, _)
\* FindAnchor with elements that carry attributes passed over
FindAnchorSkipAttributed(children, tag, index, index_opt) ==
    IF index >= Len(children) THEN [ok |-> TRUE, err |-> "", index_opt |-> index_opt]
    ELSE LET child == children[index + 1] IN
         IF child.kind = "elem" /\ child.name = tag /\ child.attrs = {}
         THEN IF index_opt # None
              THEN [ok |-> FALSE, err |-> "has redefined tag", index_opt |-> None]
              ELSE FindAnchorSkipAttributed(children, tag, index + 1, Some(index))
         ELSE FindAnchorSkipAttributed(children, tag, index + 1, index_opt)

RECURSIVE FindAnchor(_, _, _, _)
\* the scan of expand_locale over element.children, from position index
\* (counted from 0) with the anchor found so far in index_opt
FindAnchor(children, tag, index, index_opt) ==
    IF index >= Len(children) THEN [ok |-> TRUE, err |-> "", index_opt |-> index_opt]
    ELSE LET child == children[index + 1] IN
         IF child.kind = "elem" /\ child.name = tag
         THEN IF child.attrs # {}
              THEN [ok |-> FALSE, err |-> "has localized tag", index_opt |-> None]
              ELSE IF index_opt # None
              THEN [ok |-> FALSE, err |-> "has redefined tag", index_opt |-> None]
              ELSE FindAnchor(children, tag, index + 1, Some(index))
         ELSE FindAnchor(children, tag, index + 1, index_opt)

\* the element built for one language
LocalizedElem(tag, lang, value) ==
    Elem(tag, {<<"lang", LangParam(lang)>>}, <<TextNode(value)>>)

RECURSIVE InsertLocalizedNoAdvance(_, _, _, _, _)
\* InsertLocalized with the insertion point left at the anchor
InsertLocalizedNoAdvance(children, tag, langs, map, index) ==
    IF langs = <<>> THEN children
    ELSE LET child == LocalizedElem(tag, Head(langs), map[Head(langs)])
         IN InsertLocalizedNoAdvance(VecInsert(children, index + 1, child), tag,
                Tail(langs), map, index)

RECURSIVE InsertLocalized(_, _, _, _, _)
\* the insertion loop of expand_locale: index += 1; children.insert(index, ..)
InsertLocalized(children, tag, langs, map, index) ==
    IF langs = <<>> THEN children
    ELSE LET child == LocalizedElem(tag, Head(langs), map[Head(langs)])
         IN InsertLocalized(VecInsert(children, index + 1, child), tag,
                Tail(langs), map, index + 1)

\* the closure expand_locale(element, tag, fluent)
ExpandLocale(element, tag, fluent, bundles) ==
    LET found == FindAnchor(element.children, tag, 0, None)
    IN IF ~found.ok THEN [ok |-> FALSE, err |-> found.err, element |-> element]
       ELSE IF found.index_opt = None
       THEN [ok |-> FALSE, err |-> "is missing tag", element |-> element]
       ELSE LET map == Get(fluent, bundles)
            IN [ok |-> TRUE, err |-> "",
                element |-> [element EXCEPT !.children =
                    InsertLocalized(@, tag, Keys(map), map, found.index_opt[1])]]

RECURSIVE SplitFrom(_, _, _)
\* str::split(sep) continued: cur is the segment being read
SplitFrom(s, sep, cur) ==
    IF s = <<>> THEN <<cur>>
    ELSE IF Head(s) = sep THEN <<cur>> \o SplitFrom(Tail(s), sep, <<>>)
    ELSE SplitFrom(Tail(s), sep, Append(cur, Head(s)))

\* SplitTerminator with the trailing empty segment kept (str::split)
SplitKeepTrailing(s, sep) == SplitFrom(s, sep, <<>>)

\* str::split_terminator(sep): split, the trailing segment skipped if empty
SplitTerminator(s, sep) ==
    LET parts == SplitFrom(s, sep, <<>>)
    IN IF parts[Len(parts)] = <<>> THEN SubSeq(parts, 1, Len(parts) - 1) ELSE parts

\* Element::get_mut_child(name): the position of the first child element of
\* that name, None when there is none
GetChild(element, name) ==
    LET hits == {i \in DOMAIN element.children :
                    /\ element.children[i].kind = "elem"
                    /\ element.children[i].name = name}
    IN IF hits = {} THEN None ELSE Some(CHOOSE i \in hits : \A j \in hits : i <= j)

\* the keyword elements pushed for one language
KeywordElems(lang, values) ==
    LET segs == SplitTerminator(values, ";")
    IN [i \in DOMAIN segs |->
            Elem("keyword", {<<"lang", LangParam(lang)>>}, <<TextNode(segs[i])>>)]

RECURSIVE PushKeywords(_, _, _)
\* the loop over keywords.get(ctx)
PushKeywords(kids, langs, map) ==
    IF langs = <<>> THEN kids
    ELSE PushKeywords(kids \o KeywordElems(Head(langs), map[Head(langs)]),
             Tail(langs), map)

\* the keywords block of expand_metainfo
ExpandKeywords(element, fluent, bundles) ==
    LET kw == GetChild(element, "keywords")
    IN IF kw = None
       THEN [ok |-> FALSE, err |-> "is missing keywords", element |-> element]
       ELSE LET map == Get(fluent, bundles)
            IN [ok |-> TRUE, err |-> "",
                element |-> [element EXCEPT !.children[kw[1]].children =
                                PushKeywords(@, Keys(map), map)]]

\* App::expand_metainfo(template, ctx) on the parsed template; s is the text
\* returned, element the tree it is written from and located the tree as it
\* stands after the expand_locale calls
ExpandMetainfo(a, element, bundles) ==
    LET r1 == ExpandLocale(element, "name", a.name, bundles)
        r2 == IF r1.ok /\ a.comment # None
              THEN ExpandLocale(r1.element, "summary", a.comment[1], bundles)
              ELSE r1
        r3 == IF r2.ok /\ a.keywords # None
              THEN ExpandKeywords(r2.element, a.keywords[1], bundles)
              ELSE r2
    IN IF r3.ok
       THEN [ok |-> TRUE, err |-> "", located |-> r2.element, element |-> r3.element,
             s |-> Some(Serialize(r3.element))]
       ELSE [ok |-> FALSE, err |-> r3.err, located |-> element, element |-> element,
             s |-> None]

\* ------------------------------------------------------------------ inputs

SeqsUpTo(S, n) == UNION {[1..k -> S] : k \in 0..n}

Idle == <<>>

\* directory entry names: language tags in both spellings, a name that is no
\* tag, and a name that is not UTF-8
DirNames ==
    {[utf8 |-> TRUE, s |-> n] :
        n \in {<<"en">>, <<"en", "-", "US">>, <<"en", "_", "US">>, <<"README">>}}
    \cup {[utf8 |-> FALSE, s |-> <<"?">>]}

Domains == {<<"my", "-", "app">>}

FileSets == {{}, {<<"my", "_", "app", ".ftl">>}, {<<"my", "-", "app", ".ftl">>}}

NameOnly(t) == [EmptyBundle EXCEPT !["app-name"] = Ok(t)]

\* what a catalog file holds: the messages the parser recovers and the bundle
\* accepts, and whether parsing or adding reported errors
Catalogs ==
    {[parse_errs |-> FALSE, add_errs |-> FALSE, messages |-> NameOnly(<<"Hello">>)],
     [parse_errs |-> TRUE, add_errs |-> FALSE, messages |-> EmptyBundle],
     [parse_errs |-> FALSE, add_errs |-> TRUE, messages |-> NameOnly(<<"Hello">>)]}

DirEntries ==
    {[name |-> n, is_dir |-> TRUE, files |-> f, catalog |-> c] :
        n \in DirNames, f \in FileSets, c \in Catalogs}
    \cup {[name |-> n, is_dir |-> FALSE, files |-> {},
           catalog |-> [parse_errs |-> FALSE, add_errs |-> FALSE,
                        messages |-> EmptyBundle]] : n \in DirNames}

\* a directory of n entries lists each name once, in any order
DirListings(n) ==
    {d \in [1..n -> DirEntries] :
        \A i, j \in DOMAIN d : i # j => d[i].name # d[j].name}

\* the text a catalog gives a message in a language
TextOf(lang, id) ==
    CASE id = "app-name" -> <<"Name", LangTable[lang][1]>>
      [] id = "app-comment" -> <<"Comment", LangTable[lang][1]>>
      [] id = "app-keywords" ->
            IF lang = 2 THEN <<"alpha", ";", "beta", ";">>
            ELSE <<"gamma", ";", ";", "delta">>

\* registries of the resolver runs: any set of languages, each message of a
\* catalog absent, without value, formatted cleanly or formatted with errors
ResolverBundles ==
    {[m \in MsgIds |->
        IF m = "app-keywords" THEN Absent
        ELSE IF k[m] = "absent" THEN Absent
        ELSE IF k[m] = "novalue" THEN NoValue
        ELSE IF k[m] = "ok" THEN Ok(<<"text", m>>)
        ELSE Errs(<<"{", m, "}">>)] :
        k \in [{"app-name", "app-comment"} -> {"absent", "novalue", "ok", "errs"}]}

ResolverCtxs == UNION {[S -> ResolverBundles] : S \in SUBSET Langs}

\* registries of the expander runs: two languages, each catalog one of four
ExpanderBundles(lang) ==
    {EmptyBundle,
     NameOnly(TextOf(lang, "app-name")),
     [m \in MsgIds |-> Ok(TextOf(lang, m))],
     [EmptyBundle EXCEPT !["app-keywords"] =
         IF lang = 2 THEN Errs(<<"solo">>) ELSE Ok(<<";">>)]}

ExpanderCtxs ==
    {[l \in {2, 3} |-> IF l = 2 THEN b2 ELSE b3] :
        b2 \in ExpanderBundles(2), b3 \in ExpanderBundles(3)}

SectionNames == {"Desktop Entry", "Desktop Action New"}

LinePool ==
    {SectionLine(n) : n \in SectionNames}
    \cup {AttrLine(k, None, v) :
            k \in {"Name", "Comment", "Keywords", "Exec"}, v \in {<<"a">>, <<"b">>}}
    \cup {AttrLine(k, Some(<<"de">>), <<"a">>) : k \in {"Name", "Comment", "Keywords"}}

\* desktop-entry texts: a section header first, no section name twice
Templates ==
    {t \in {<<SectionLine(n)>> \o r : n \in SectionNames, r \in SeqsUpTo(LinePool, MaxLines)} :
        \A i, j \in DOMAIN t :
            (i # j /\ t[i].kind = "section" /\ t[j].kind = "section")
                => t[i].name # t[j].name}

De == <<"lang", <<"de">>>>

NodePool ==
    {Elem("name", {}, <<TextNode(<<"Default">>)>>),
     Elem("name", {De}, <<TextNode(<<"Standard">>)>>),
     Elem("summary", {}, <<TextNode(<<"Summary">>)>>),
     Elem("summary", {De}, <<TextNode(<<"Kurz">>)>>),
     Elem("keywords", {}, <<>>),
     Elem("keywords", {}, <<Elem("keyword", {}, <<TextNode(<<"old">>)>>)>>),
     Elem("keywords", {De}, <<>>),
     Elem("id", {}, <<TextNode(<<"org.app">>)>>),
     TextNode(<<" ">>)}

\* parsed metainfo templates: a component element and its children
Roots ==
    {Elem("component", {<<"type", <<"desktop">>>>}, c) :
        c \in SeqsUpTo(NodePool, MaxChildren)}

\* ------------------------------------------------------------ state machine

InitRegistry ==
    /\ pc = "new"
    /\ \E n \in 0..MaxEntries : dir \in DirListings(n)
    /\ domain \in Domains
    /\ ctx = Idle /\ msg = Idle /\ app = Idle /\ template = Idle /\ root = Idle
    /\ result = Idle /\ rerun = Idle

InitResolver ==
    /\ pc = "get"
    /\ ctx \in ResolverCtxs
    /\ msg \in MsgIds
    /\ dir = Idle /\ domain = Idle /\ app = Idle /\ template = Idle /\ root = Idle
    /\ result = Idle /\ rerun = Idle

InitDesktop ==
    /\ pc = "expand_desktop"
    /\ ctx \in ExpanderCtxs
    /\ app \in Apps
    /\ template \in Templates
    /\ dir = Idle /\ domain = Idle /\ msg = Idle /\ root = Idle
    /\ result = Idle /\ rerun = Idle

InitMetainfo ==
    /\ pc = "expand_metainfo"
    /\ ctx \in ExpanderCtxs
    /\ app \in Apps
    /\ root \in Roots
    /\ dir = Idle /\ domain = Idle /\ msg = Idle /\ template = Idle
    /\ result = Idle /\ rerun = Idle

\* Context::new on the directory
NewContext ==
    /\ pc = "new"
    /\ result' = ContextNew(dir, domain)
    /\ pc' = "new_done"
    /\ UNCHANGED <<dir, domain, ctx, msg, app, template, root, rerun>>

\* FluentString::get on the registry
ResolveMessage ==
    /\ pc = "get"
    /\ result' = FluentGet(msg, ctx)
    /\ pc' = "get_done"
    /\ UNCHANGED <<dir, domain, ctx, msg, app, template, root, rerun>>

\* App::expand_desktop on the template
RunExpandDesktop ==
    /\ pc = "expand_desktop"
    /\ result' = ExpandDesktop(app, template, ctx)
    /\ pc' = "desktop_done"
    /\ UNCHANGED <<dir, domain, ctx, msg, app, template, root, rerun>>

\* App::expand_desktop again, on the text the first run returned
RerunExpandDesktop ==
    /\ pc = "desktop_done"
    /\ result.ok
    /\ rerun' = ExpandDesktop(app, result.s, ctx)
    /\ pc' = "desktop_rerun_done"
    /\ UNCHANGED <<dir, domain, ctx, msg, app, template, root, result>>

\* App::expand_metainfo on the template
RunExpandMetainfo ==
    /\ pc = "expand_metainfo"
    /\ result' = ExpandMetainfo(app, root, ctx)
    /\ pc' = "metainfo_done"
    /\ UNCHANGED <<dir, domain, ctx, msg, app, template, root, rerun>>

\* App::expand_metainfo again, on the text the first run returned
RerunExpandMetainfo ==
    /\ pc = "metainfo_done"
    /\ result.ok
    /\ rerun' = ExpandMetainfo(app, ParseXml(result.s[1]), ctx)
    /\ pc' = "metainfo_rerun_done"
    /\ UNCHANGED <<dir, domain, ctx, msg, app, template, root, result>>

NextRegistry == NewContext
NextResolver == ResolveMessage
NextDesktop == RunExpandDesktop \/ RerunExpandDesktop
NextMetainfo == RunExpandMetainfo \/ RerunExpandMetainfo
NextExpanders == NextDesktop \/ NextMetainfo

Init == InitRegistry \/ InitResolver \/ InitDesktop \/ InitMetainfo
Next == NextRegistry \/ NextResolver \/ NextDesktop \/ NextMetainfo

SpecRegistry == InitRegistry /\ [][NextRegistry]_vars
SpecResolver == InitResolver /\ [][NextResolver]_vars
SpecDesktop == InitDesktop /\ [][NextDesktop]_vars
SpecMetainfo == InitMetainfo /\ [][NextMetainfo]_vars
SpecExpanders == (InitDesktop \/ InitMetainfo) /\ [][NextExpanders]_vars
Spec == Init /\ [][Next]_vars

\* ================================================================== claims

\* ---------------------------------------------------------------------- C8

\* the languages of the registry whose catalog holds the message in this way
LangsOfKind(kinds) == {l \in DOMAIN ctx : ctx[l][msg].kind \in kinds}

\* C8, as claimed: the map returned by FluentString::get has no entry for a
\* language whose formatting of the message reported errors, nor for one
\* whose catalog lacks the message or whose message has no value.
C8_NoEntryWhenFormattingFailed ==
    pc = "get_done" =>
        \A l \in DOMAIN result.results : ctx[l][msg].kind = "ok"

\* C8, amended: the map has an entry for exactly the languages whose catalog
\* holds the message with a value pattern.  A language whose formatting
\* reported errors keeps its entry, which holds the formatted text, and gets
\* one diagnostic; a language without the message or without a value has no
\* entry.
C8_EntryKeptWhenFormattingFailed ==
    pc = "get_done" =>
        /\ DOMAIN result.results = LangsOfKind({"ok", "errs"})
        /\ \A l \in DOMAIN result.results : result.results[l] = ctx[l][msg].text
        /\ Len(result.diag) = Cardinality(LangsOfKind({"errs"}))

\* C8 witness: a resolved map with an entry of a language whose formatting
\* failed, from a registry that also has a language lacking the message.
C8_Witness ==
    /\ pc = "get_done"
    /\ \E l \in DOMAIN result.results : ctx[l][msg].kind = "errs"
    /\ LangsOfKind({"absent"}) # {}
    /\ LangsOfKind({"novalue"}) # {}

\* ---------------------------------------------------------------------- C9

SubDirs == {i \in DOMAIN dir : dir[i].is_dir}

\* every subdirectory name is a language tag and its catalog file is readable
WellFormedDir ==
    \A i \in SubDirs :
        /\ dir[i].name.utf8
        /\ ParseLang(dir[i].name.s) # None
        /\ CatalogFile(domain) \in dir[i].files

DirTags == {ParseLang(dir[i].name.s)[1] : i \in SubDirs}

\* C9, as claimed: on a well-formed directory Context::new succeeds and the
\* registry has as many entries as the directory has subdirectories, also
\* when two subdirectory names normalize to the same language tag.
C9_OneEntryPerSubdirectory ==
    (pc = "new_done" /\ WellFormedDir) =>
        /\ result.ok
        /\ Cardinality(DOMAIN result.lang_bundles) = Cardinality(SubDirs)

\* C9, amended: on a well-formed directory Context::new succeeds, whatever
\* the catalogs' parse or add errors, and the registry has exactly one entry
\* per distinct language tag among the subdirectory names; non-directory
\* entries are ignored.  The number of entries is the number of
\* subdirectories exactly when no two names normalize to the same tag.
C9_OneEntryPerDistinctTag ==
    (pc = "new_done" /\ WellFormedDir) =>
        /\ result.ok
        /\ DOMAIN result.lang_bundles = DirTags
        /\ (Cardinality(DOMAIN result.lang_bundles) = Cardinality(SubDirs))
            <=> (\A i, j \in SubDirs :
                    i # j => ParseLang(dir[i].name.s) # ParseLang(dir[j].name.s))

\* C9 witness: a well-formed directory with a non-directory entry, two
\* subdirectories whose names normalize to the same tag and a catalog with
\* parse errors, on which Context::new succeeded.
C9_Witness ==
    /\ pc = "new_done" /\ WellFormedDir /\ result.ok
    /\ \E i \in DOMAIN dir : ~dir[i].is_dir
    /\ \E i, j \in SubDirs : i # j /\ ParseLang(dir[i].name.s) = ParseLang(dir[j].name.s)
    /\ \E i \in SubDirs : dir[i].catalog.parse_errs

\* ---------------------------------------------------------------------- C1

\* the name of the section output line i stands in
SectionAt(s, i) ==
    LET h == CHOOSE j \in 1..i :
                /\ s[j].kind = "section"
                /\ \A k \in (j + 1)..i : s[k].kind # "section"
    IN s[h].name

\* the number of appended lines that directly follow output line i
RunLen(m, i) ==
    CHOOSE n \in 0..(Len(m) - i) :
        /\ \A k \in 1..n : m[i + k]
        /\ (i + n = Len(m) \/ ~m[i + n + 1])

\* the descriptor field a key stands for
Field(a, key) ==
    CASE key = "Name" -> Some(a.name)
      [] key = "Comment" -> a.comment
      [] key = "Keywords" -> a.keywords
      [] OTHER -> None

\* line i is the last original line of an attribute of section Desktop Entry
\* whose key is Name, Comment or Keywords, whose field is populated and
\* which has no bracketed parameter
Localizable(s, m, i) ==
    /\ s[i].kind = "attr"
    /\ SectionAt(s, i) = "Desktop Entry"
    /\ Field(app, s[i].key) # None
    /\ s[i].param = None
    /\ ~(/\ i < Len(s)
         /\ ~m[i + 1]
         /\ s[i + 1].kind = "attr"
         /\ s[i + 1].key = s[i].key
         /\ s[i + 1].param = s[i].param)

\* t is the language tag with every "-" replaced by "_"
Underscored(tag, t) ==
    /\ Len(t) = Len(tag)
    /\ \A j \in DOMAIN tag : t[j] = IF tag[j] = "-" THEN "_" ELSE tag[j]

\* the k-th smallest element of a set of language tags
Nth(S, k) == CHOOSE l \in S : Cardinality({x \in S : x < l}) = k - 1

\* C1: when expand_desktop succeeds, every localizable attribute (section
\* Desktop Entry, key Name, Comment or Keywords, field populated, no
\* parameter) is followed, directly after its original lines, by exactly one
\* line Key[tag]=text per language of the resolved map, in ascending language
\* order, tag being the language tag with "-" replaced by "_"; no line is
\* appended after any other original line.
C1_LocalizedLinesFollowAttribute ==
    (pc \in {"desktop_done", "desktop_rerun_done"} /\ result.ok) =>
        /\ ~result.appended[1]
        /\ \A i \in DOMAIN result.s :
            ~result.appended[i] =>
                IF Localizable(result.s, result.appended, i)
                THEN LET map == Get(Field(app, result.s[i].key)[1], ctx)
                         n == Cardinality(DOMAIN map)
                     IN /\ RunLen(result.appended, i) = n
                        /\ \A k \in 1..n :
                            LET l == Nth(DOMAIN map, k)
                                line == result.s[i + k]
                            IN /\ line.kind = "attr"
                               /\ line.key = result.s[i].key
                               /\ line.param # None
                               /\ Underscored(LangToString(l), line.param[1])
                               /\ line.value = map[l]
                ELSE RunLen(result.appended, i) = 0

\* C1 witness: a successful expansion that appended the lines of two
\* languages, one of them with a hyphenated tag, after an attribute of
\* Desktop Entry, from a template that also has a Name attribute in another
\* section.
C1_Witness ==
    /\ pc = "desktop_done" /\ result.ok
    /\ \E i \in DOMAIN result.s :
        /\ i + 2 <= Len(result.s)
        /\ ~result.appended[i] /\ result.appended[i + 1] /\ result.appended[i + 2]
        /\ result.s[i + 1].param = Some(<<"en", "_", "US">>)
    /\ \E j \in DOMAIN result.s :
        /\ result.s[j].kind = "attr" /\ result.s[j].key = "Name"
        /\ SectionAt(result.s, j) # "Desktop Entry"

\* ---------------------------------------------------------------------- C3

RECURSIVE KeepOriginal(_, _)
\* the output with the appended lines removed
KeepOriginal(s, m) ==
    IF s = <<>> THEN <<>>
    ELSE IF Head(m) THEN KeepOriginal(Tail(s), Tail(m))
    ELSE <<Head(s)>> \o KeepOriginal(Tail(s), Tail(m))

\* C3, as claimed: when expand_desktop succeeds, the output with the appended
\* localized lines removed is exactly the input template: every section
\* header and every attribute line once, unchanged and in the original
\* order, also for an attribute whose value list holds several values.
C3_OutputWithoutAppendedIsTemplate ==
    (pc = "desktop_done" /\ result.ok) =>
        KeepOriginal(result.s, result.appended) = template

\* ------------------------------------------------- metainfo claims, shared

\* the positions of the root's child elements of a tag, with and without
\* attributes
Plain(c, tag) ==
    {i \in DOMAIN c : c[i].kind = "elem" /\ c[i].name = tag /\ c[i].attrs = {}}

Attributed(c, tag) ==
    {i \in DOMAIN c : c[i].kind = "elem" /\ c[i].name = tag /\ c[i].attrs # {}}

\* the resolved maps of the title and, when there is one, of the comment
NameMap == Get(app.name, ctx)

SummaryMap == IF app.comment = None THEN EmptyMap ELSE Get(app.comment[1], ctx)

\* where child j of the template stands among the root's children after the
\* expansion of name and summary
FinalPos(j) ==
    LET c == root.children
    IN j + (IF j > Nth(Plain(c, "name"), 1) THEN Cardinality(DOMAIN NameMap) ELSE 0)
         + (IF app.comment # None /\ j > Nth(Plain(c, "summary"), 1)
            THEN Cardinality(DOMAIN SummaryMap) ELSE 0)

\* e is the element of that tag for language l: a lang attribute holding the
\* tag with "-" replaced by "_" and one text child holding the text
IsLocalized(e, tag, l, text) ==
    /\ e.kind = "elem" /\ e.name = tag
    /\ Cardinality(e.attrs) = 1
    /\ \A p \in e.attrs : p[1] = "lang" /\ Underscored(LangToString(l), p[2])
    /\ e.children = <<TextNode(text)>>

\* child n of the result is child j of the template: the same node, or,
\* for the first keywords element under a descriptor with keywords, that
\* element with keyword elements appended
SameChild(j, n) ==
    LET o == root.children[j]
    IN \/ n = o
       \/ /\ app.keywords # None
          /\ o.kind = "elem" /\ o.name = "keywords"
          /\ \A i \in 1..(j - 1) :
                ~(root.children[i].kind = "elem" /\ root.children[i].name = "keywords")
          /\ n = [o EXCEPT !.children = n.children]
          /\ Len(n.children) >= Len(o.children)
          /\ SubSeq(n.children, 1, Len(o.children)) = o.children

\* the run of localized elements of a tag stands right after its anchor
RunAfterAnchor(f, tag, map) ==
    LET a == FinalPos(Nth(Plain(root.children, tag), 1))
    IN \A k \in 1..Cardinality(DOMAIN map) :
        IsLocalized(f[a + k], tag, Nth(DOMAIN map, k), map[Nth(DOMAIN map, k)])

\* ---------------------------------------------------------------------- C2

\* C2: when expand_metainfo succeeds, the root's children after the
\* expansion of name (and of summary when the descriptor has a comment) are
\* the template's children, each with its content and in their order, with,
\* right after the attribute-less name element, one name element per
\* language of the resolved map, contiguous and in ascending language order,
\* each with a lang attribute (the tag with "-" replaced by "_") and one
\* text child; the same for summary.  In the tree that is written out the
\* same holds, the first keywords element having gained keyword children
\* when the descriptor has keywords.
C2_LocalizedSiblingsFollowAnchor ==
    (pc \in {"metainfo_done", "metainfo_rerun_done"} /\ result.ok) =>
        LET c == root.children
            g == result.located.children
            f == result.element.children
        IN /\ Len(g) = Len(c) + Cardinality(DOMAIN NameMap)
                              + Cardinality(DOMAIN SummaryMap)
           /\ Len(f) = Len(g)
           /\ \A j \in DOMAIN c : g[FinalPos(j)] = c[j] /\ SameChild(j, f[FinalPos(j)])
           /\ RunAfterAnchor(g, "name", NameMap) /\ RunAfterAnchor(f, "name", NameMap)
           /\ app.comment # None =>
                /\ RunAfterAnchor(g, "summary", SummaryMap)
                /\ RunAfterAnchor(f, "summary", SummaryMap)

\* C2 witness: a successful expansion that inserted two name elements and two
\* summary elements into a template whose summary stands before its name.
C2_Witness ==
    /\ pc = "metainfo_done" /\ result.ok /\ app.comment # None
    /\ Cardinality(DOMAIN NameMap) = 2 /\ Cardinality(DOMAIN SummaryMap) = 2
    /\ Len(root.children) = 3
    /\ Nth(Plain(root.children, "summary"), 1) < Nth(Plain(root.children, "name"), 1)

\* ---------------------------------------------------------------------- C4

\* C4, as claimed: expand_metainfo fails with "missing tag" whenever the root
\* has no child element named name, and with "redefined tag" whenever the
\* root has two or more attribute-less name elements, whatever the other
\* children and their order; no text is returned.
C4_MissingOrRedefinedAlways ==
    pc = "metainfo_done" =>
        LET c == root.children
        IN /\ (Plain(c, "name") \cup Attributed(c, "name") = {}) =>
                (~result.ok /\ result.err = "is missing tag" /\ result.s = None)
           /\ Cardinality(Plain(c, "name")) >= 2 =>
                (~result.ok /\ result.err = "has redefined tag" /\ result.s = None)

\* C4, amended: expand_metainfo fails with "missing tag" whenever the root
\* has no child element named name, and with "redefined tag" whenever the
\* root has two or more attribute-less name elements and no name element
\* with attributes stands before the second of them (when one does, the
\* error is "has localized tag"); no text is returned.
C4_MissingOrRedefinedInScanOrder ==
    pc = "metainfo_done" =>
        LET c == root.children
        IN /\ (Plain(c, "name") \cup Attributed(c, "name") = {}) =>
                (~result.ok /\ result.err = "is missing tag" /\ result.s = None)
           /\ (/\ Cardinality(Plain(c, "name")) >= 2
               /\ \A i \in Attributed(c, "name") : i > Nth(Plain(c, "name"), 2)) =>
                (~result.ok /\ result.err = "has redefined tag" /\ result.s = None)
           /\ (/\ Cardinality(Plain(c, "name")) >= 2
               /\ \E i \in Attributed(c, "name") : i < Nth(Plain(c, "name"), 2)) =>
                (~result.ok /\ result.err = "has localized tag" /\ result.s = None)

\* C4 witness: a template with two attribute-less name elements followed by a
\* name element with attributes, rejected as redefined.
C4_Witness ==
    /\ pc = "metainfo_done" /\ ~result.ok /\ result.err = "has redefined tag"
    /\ Cardinality(Plain(root.children, "name")) = 2
    /\ Attributed(root.children, "name") # {}

\* --------------------------------------------------------------------- C10

\* the first offence a scan for the tag meets in child order
Offence(c, tag) ==
    LET fa == IF Attributed(c, tag) = {} THEN Len(c) + 1
              ELSE Nth(Attributed(c, tag), 1)
        sp == IF Cardinality(Plain(c, tag)) < 2 THEN Len(c) + 1
              ELSE Nth(Plain(c, tag), 2)
    IN IF fa < sp THEN "has localized tag"
       ELSE IF sp < fa THEN "has redefined tag"
       ELSE IF Plain(c, tag) = {} THEN "is missing tag"
       ELSE ""

\* the tag whose scan decides the call: name, then summary when name passes
\* and the descriptor has a comment
ScannedTags ==
    {"name"} \cup (IF Offence(root.children, "name") = "" /\ app.comment # None
                   THEN {"summary"} ELSE {})

\* C10, as claimed: whenever the root's children include an element of the
\* scanned tag with attributes, the call fails with "has localized tag",
\* wherever that element stands, also when two attribute-less elements of
\* the tag are present.
C10_AttributedAlwaysWins ==
    pc = "metainfo_done" =>
        \A tag \in ScannedTags :
            Attributed(root.children, tag) # {} =>
                (~result.ok /\ result.err = "has localized tag")

\* C10, amended: the scan reports the first offence in child order.  The call
\* fails with "has localized tag" when an element of the tag with attributes
\* stands before the second attribute-less element of the tag (or there is
\* no second one), and with "has redefined tag" when the second
\* attribute-less element stands before every element with attributes.
C10_FirstOffenceInChildOrder ==
    pc = "metainfo_done" =>
        \A tag \in ScannedTags :
            Offence(root.children, tag) \in {"has localized tag", "has redefined tag"} =>
                (~result.ok /\ result.err = Offence(root.children, tag))

\* C10 witness: a template with an attributed name element between two
\* attribute-less ones, rejected as localized.
C10_Witness ==
    /\ pc = "metainfo_done" /\ ~result.ok /\ result.err = "has localized tag"
    /\ Cardinality(Plain(root.children, "name")) = 2
    /\ \E i \in Attributed(root.children, "name") :
        /\ Nth(Plain(root.children, "name"), 1) < i
        /\ i < Nth(Plain(root.children, "name"), 2)

\* ---------------------------------------------------------------------- C7

SepPos(s) == {i \in DOMAIN s : s[i] = ";"}

\* the k-th stretch of s between separators, k in 1..(number of ";" + 1)
Piece(s, k) ==
    LET n == Cardinality(SepPos(s))
        lo == IF k = 1 THEN 0 ELSE Nth(SepPos(s), k - 1)
        hi == IF k = n + 1 THEN Len(s) + 1 ELSE Nth(SepPos(s), k)
    IN SubSeq(s, lo + 1, hi - 1)

\* the segments of s: its stretches between ";", the last one discarded when
\* it is empty
Segments(s) ==
    LET n == Cardinality(SepPos(s)) + 1
    IN IF Piece(s, n) = <<>> THEN [k \in 1..(n - 1) |-> Piece(s, k)]
       ELSE [k \in 1..n |-> Piece(s, k)]

KeywordsMap == Get(app.keywords[1], ctx)

\* the position of the first keywords element among the template's children
KeywordsPos ==
    Nth({i \in DOMAIN root.children :
            root.children[i].kind = "elem" /\ root.children[i].name = "keywords"}, 1)

\* the segments of all languages, in ascending language order, each with
\* its language
LangSegments ==
    Concat([k \in 1..Cardinality(DOMAIN KeywordsMap) |->
        LET l == Nth(DOMAIN KeywordsMap, k)
            segs == Segments(KeywordsMap[l])
        IN [i \in DOMAIN segs |-> [lang |-> l, seg |-> segs[i]]]])

\* C7: when expand_metainfo succeeds with a keywords field, the keywords
\* element keeps its children and gains after them one keyword element per
\* segment of each resolved text (split on ";", a trailing empty segment
\* discarded), with lang = the tag with "-" replaced by "_" and the segment
\* as text, grouped by language in ascending order, segments in order.
C7_KeywordElementsAppended ==
    (pc \in {"metainfo_done", "metainfo_rerun_done"} /\ result.ok
        /\ app.keywords # None) =>
        LET old == root.children[KeywordsPos].children
            new == result.element.children[FinalPos(KeywordsPos)].children
        IN /\ Len(new) = Len(old) + Len(LangSegments)
           /\ SubSeq(new, 1, Len(old)) = old
           /\ \A i \in DOMAIN LangSegments :
                IsLocalized(new[Len(old) + i], "keyword",
                    LangSegments[i].lang, LangSegments[i].seg)

\* C7 witness: a keywords element with one keyword child that gained the two
\* segments of "alpha;beta;" and then the three of "gamma;;delta".
C7_Witness ==
    /\ pc = "metainfo_done" /\ result.ok /\ app.keywords # None
    /\ Len(root.children[KeywordsPos].children) = 1
    /\ KeywordsMap = (2 :> <<"alpha", ";", "beta", ";">>
                        @@ 3 :> <<"gamma", ";", ";", "delta">>)
    /\ Len(result.element.children[FinalPos(KeywordsPos)].children) = 6

\* ---------------------------------------------------------------------- C5

\* the first run of expand_desktop appended a localized line
DesktopLocalized == \E i \in DOMAIN result.appended : result.appended[i]

\* the first run of expand_metainfo inserted a name or summary element
MetainfoLocalized == Len(result.element.children) > Len(root.children)

\* C5, as claimed: whenever an expander succeeds, running it again on its
\* output with the same descriptor and registry fails with the
\* double-localization error, also when the title resolved in no language
\* or only keywords were localized.
C5_RerunAlwaysFails ==
    /\ pc = "desktop_rerun_done" => (~rerun.ok /\ rerun.err = "has localized")
    /\ pc = "metainfo_rerun_done" => (~rerun.ok /\ rerun.err = "has localized tag")

\* C5, amended: running an expander again on its own output fails with the
\* double-localization error exactly when the first run inserted something
\* the second run scans for: at least one localized Name, Comment or
\* Keywords line (expand_desktop), at least one localized name or summary
\* element (expand_metainfo).  Otherwise (nothing resolved, or only keyword
\* elements added to a metainfo template) the second run succeeds.
C5_RerunFailsWhenLocalized ==
    /\ pc = "desktop_rerun_done" =>
        IF DesktopLocalized THEN ~rerun.ok /\ rerun.err = "has localized"
        ELSE rerun.ok
    /\ pc = "metainfo_rerun_done" =>
        IF MetainfoLocalized THEN ~rerun.ok /\ rerun.err = "has localized tag"
        ELSE rerun.ok

\* C5 witness: a second run of expand_metainfo that failed on the name
\* elements the first run had inserted.
C5_Witness ==
    /\ pc = "metainfo_rerun_done" /\ ~rerun.ok /\ rerun.err = "has localized tag"
    /\ Cardinality(DOMAIN NameMap) = 2
    /\ Attributed(root.children, "name") = {}

\* ---------------------------------------------------------------------- C6

\* the unqualified and the qualified lines of a key in section Desktop Entry
DesktopDefs(key, qualified) ==
    {i \in DOMAIN template :
        /\ template[i].kind = "attr" /\ template[i].key = key
        /\ SectionAt(template, i) = "Desktop Entry"
        /\ (template[i].param # None) = qualified}

\* a populated field of the descriptor is defined twice, or with a locale
\* qualifier, in the desktop-entry template
DesktopIllFormed ==
    \E key \in {"Name", "Comment", "Keywords"} :
        /\ Field(app, key) # None
        /\ \/ Cardinality(DesktopDefs(key, FALSE)) >= 2
           \/ DesktopDefs(key, TRUE) # {}

MetaTag(key) ==
    CASE key = "Name" -> "name" [] key = "Comment" -> "summary"
      [] key = "Keywords" -> "keywords"

\* the same for the metainfo template
MetainfoIllFormed ==
    \E key \in {"Name", "Comment", "Keywords"} :
        /\ Field(app, key) # None
        /\ \/ Cardinality(Plain(root.children, MetaTag(key))) >= 2
           \/ Attributed(root.children, MetaTag(key)) # {}

\* C6: in both expanders a template that defines a populated field more than
\* once without qualifier, or defines it with a locale qualifier or
\* attribute, is never expanded successfully.
C6_IllFormedTemplateRejected ==
    /\ (pc = "desktop_done" /\ DesktopIllFormed) => ~result.ok
    /\ (pc = "metainfo_done" /\ MetainfoIllFormed) => ~result.ok

====
